---- MODULE Spec2Model ----
(***************************************************************************)
(* Model of the two fetchers of github-readme-stats:                       *)
(*   fetchStats / statsFetcher   (src/src/fetchers/stats-fetcher.js)       *)
(*   fetchTopLanguages           (src/unnamed/part_000 and                 *)
(*                                src/src/fetchers/top-languages-fetcher.js)*)
(* One call is followed from its invocation to its outcome.  Every action  *)
(* is one synchronous stretch of the async function: the code from the     *)
(* call (or from the resumption of an await) up to the next await or to    *)
(* the return/throw.  The server's answers are nondeterministic.           *)
(***************************************************************************)
EXTENDS Integers, Sequences, FiniteSets, TLC

(* ------------------------------ bounds --------------------------------- *)
\* Largest number of page requests the server lets a walk make: it reports
\* hasNextPage = true only while fewer pages than this were requested.
MaxPages == 2
\* Largest number of repository nodes on one page of the stats query.
MaxPageNodes == 2
\* Largest length of an upstream error array.
MaxErrors == 2
\* Largest number of repositories in the language query's response.
MaxRepos == 2

(* --------------------------- value domains ----------------------------- *)
\* JavaScript undefined / null, where a string is expected.
Undefined == "<undefined>"
NullCursor == "<null>"

Usernames == {Undefined, "", "octocat"}
EnvValues == {Undefined, "false", "true"}
RepoNames == {"a", "b", "c"}
StarRepoNames == {"a", "b"}
ExcludeLists == {{}, {"a"}}
StarCounts == {0, 3}
Cursors == {NullCursor, "c1", "c2"}
StatusTexts == {"OK", "Unauthorized"}
ErrorTypes == {"NOT_FOUND", "FORBIDDEN"}
\* A message is the sequence of the lengths of its words; << >> is the
\* empty string (or an absent message: both are falsy).
Messages == {<< >>, <<50, 50>>}

\* JavaScript truthiness of a string-or-undefined value.
Truthy(v) == v \notin {Undefined, "", NullCursor}

\* All sequences over S of length lo..hi.
SeqsOf(S, lo, hi) == UNION {[1..n -> S] : n \in lo..hi}

RECURSIVE SumSeq(_)
SumSeq(s) == IF s = << >> THEN 0 ELSE Head(s) + SumSeq(Tail(s))

Min(a, b) == IF a < b THEN a ELSE b

(* ------------------------- error classification ------------------------ *)
UpstreamErrors == [type : ErrorTypes, message : Messages]
ErrorArrays == SeqsOf(UpstreamErrors, 1, MaxErrors)

WrapWidth == 90
DefaultUserMessage == <<5, 3, 5, 5>>   \* "Could not fetch user."
StatsGraphQLMessage == <<9, 4, 5, 5, 6, 2, 8, 3, 5, 4, 5, 3, 7, 4>>
LangsGraphQLMessage == <<9, 4, 5, 5, 6, 2, 8, 3, 8, 4, 5, 3, 7, 4>>

\* Length of the text made of the words ws joined by single blanks.
TextWidth(ws) == SumSeq(ws) + (IF Len(ws) > 0 THEN Len(ws) - 1 ELSE 0)

\* wrapTextMultiline(text, width, 1)[0]: the first line of the word-wrapped
\* text, i.e. the longest prefix of whole words that fits the width (one
\* word at least).
RECURSIVE FirstLine(_, _, _)
FirstLine(ws, width, n) ==
  IF n < Len(ws) /\ TextWidth(SubSeq(ws, 1, n + 1)) <= width
    THEN FirstLine(ws, width, n + 1)
    ELSE SubSeq(ws, 1, n)
wrapTextMultiline(ws, width) == FirstLine(ws, width, 1)

\* Variant of Classify that reads the last error of the array (C5).
ClassifyLastError(errors, statusText, fallback) ==
  LET e == errors[Len(errors)] IN
  IF e.type = "NOT_FOUND"
    THEN [kind |-> "error", error |-> "UserNotFound",
          message |-> IF e.message # << >> THEN e.message
                      ELSE DefaultUserMessage,
          secondary |-> "USER_NOT_FOUND"]
  ELSE IF e.message # << >>
    THEN [kind |-> "error", error |-> "UpstreamMessage",
          message |-> wrapTextMultiline(e.message, WrapWidth),
          secondary |-> statusText]
  ELSE [kind |-> "error", error |-> "GraphQLUnspecified",
        message |-> fallback, secondary |-> "GRAPHQL_ERROR"]

\* The throw chosen for a response that carries res.data.errors.
Classify(errors, statusText, fallback) ==
  LET e == errors[1] IN
  IF e.type = "NOT_FOUND"
    THEN [kind |-> "error", error |-> "UserNotFound",
          message |-> IF e.message # << >> THEN e.message
                      ELSE DefaultUserMessage,
          secondary |-> "USER_NOT_FOUND"]
  ELSE IF e.message # << >>
    THEN [kind |-> "error", error |-> "UpstreamMessage",
          message |-> wrapTextMultiline(e.message, WrapWidth),
          secondary |-> statusText]
  ELSE [kind |-> "error", error |-> "GraphQLUnspecified",
        message |-> fallback, secondary |-> "GRAPHQL_ERROR"]

\* throw new MissingParamError(["username"])
MissingParamError ==
  [kind |-> "error", error |-> "MissingParameter",
   message |-> << >>, secondary |-> "username"]

\* A rejection of the retried request, propagated through the awaits.
TransportFailure ==
  [kind |-> "error", error |-> "TransportFailure",
   message |-> << >>, secondary |-> ""]

\* Reading res.data.data.user when data is null (an answer that carries
\* errors has no data): a TypeError leaves the function.
TypeError ==
  [kind |-> "error", error |-> "TypeError", message |-> << >>, secondary |-> ""]

\* Variant of MissingUsername that lets the empty string pass (C4).
MissingUsernameOnlyUndefined(name) == name = Undefined

\* if (!username)
MissingUsername(name) == ~Truthy(name)

(* ------------------------- stats: server side -------------------------- *)
StarNodes == [name : StarRepoNames, stars : StarCounts]
\* The repositories on a page have distinct names.
NodePages ==
  {ns \in SeqsOf(StarNodes, 0, MaxPageNodes) :
     \A i, j \in 1..Len(ns) : i < j => ns[i].name # ns[j].name}

\* The scalar part of the user object answered to the full stats query.
ScalarPayloads ==
  { [name |-> "", login |-> "octocat", pullRequests |-> 46,
     repositoriesContributedTo |-> 15],
    [name |-> "The Octocat", login |-> "octocat", pullRequests |-> 7,
     repositoriesContributedTo |-> 3] }

\* const query = variables.after ? GRAPHQL_REPOS_QUERY : GRAPHQL_STATS_QUERY
fetcher(login, after) ==
  [query |-> IF Truthy(after) THEN "REPOS" ELSE "STATS",
   login |-> login, after |-> after]

\* Answers with data.  The repository-only query has no scalar fields.
StatsDataResponses(req, pagesSoFar) ==
  { [errors |-> << >>, statusText |-> "OK", scalars |-> sc, nodes |-> ns,
     hasNextPage |-> hn, endCursor |-> ec] :
      sc \in (IF req.query = "STATS" THEN {<<p>> : p \in ScalarPayloads}
              ELSE {<< >>}),
      ns \in NodePages,
      hn \in (IF pagesSoFar < MaxPages THEN BOOLEAN ELSE {FALSE}),
      ec \in Cursors }

\* Answers with an error payload (data is null).
ErrorResponses ==
  { [errors |-> es, statusText |-> st, scalars |-> << >>, nodes |-> << >>,
     hasNextPage |-> FALSE, endCursor |-> NullCursor] :
      es \in ErrorArrays, st \in StatusTexts }

(* ------------------------- stats: statsFetcher ------------------------- *)
StarCap == 2
FixedPullRequests == 46
FixedContributedTo == 15
FixedTotalStars == 10

\* Variant of hasErrors that never sees the error payload (C3).
hasErrorsNever(res) == FALSE

\* res.data.data is null.
dataIsNull(res) == res.errors # << >>

\* if (res.data.errors)
hasErrors(res) == res.errors # << >>

RECURSIVE filterWithStars(_)
filterWithStars(nodes) ==
  IF nodes = << >> THEN << >>
  ELSE (IF Head(nodes).stars # 0 THEN <<Head(nodes)>> ELSE << >>)
       \o filterWithStars(Tail(nodes))

\* Variant of continueWalk without the environment flag (C1).
continueIgnoringFlag(flag, repoNodes, pageHasNext) ==
  /\ Len(repoNodes) = Len(filterWithStars(repoNodes))
  /\ pageHasNext

\* Variant of continueWalk without the zero-star stop (C2).
continueIgnoringStars(flag, repoNodes, pageHasNext) ==
  /\ flag = "true"
  /\ pageHasNext

\* hasNextPage = process.env.FETCH_MULTI_PAGE_STARS === "true" &&
\*   repoNodes.length === repoNodesWithStars.length && pageInfo.hasNextPage
continueWalk(flag, repoNodes, pageHasNext) ==
  /\ flag = "true"
  /\ Len(repoNodes) = Len(filterWithStars(repoNodes))
  /\ pageHasNext

\* stats.data.data.user.repositories.nodes.push(...repoNodes) / stats = res
mergePage(acc, res) ==
  IF acc.seeded THEN [acc EXCEPT !.nodes = acc.nodes \o res.nodes]
  ELSE [seeded |-> TRUE, scalars |-> res.scalars[1], nodes |-> res.nodes]

\* "Override stats data"
overrideStats(acc) ==
  [acc EXCEPT
     !.scalars = [acc.scalars EXCEPT
                    !.pullRequests = FixedPullRequests,
                    !.repositoriesContributedTo = FixedContributedTo],
     !.nodes = [i \in 1..Len(acc.nodes) |->
                  [acc.nodes[i] EXCEPT !.stars = Min(acc.nodes[i].stars, StarCap)]]]

NoStats == [seeded |-> FALSE, scalars |-> << >>, nodes |-> << >>]

(* -------------------------- stats: fetchStats -------------------------- *)
\* The record built after a successful walk.
StatisticsRecord(user) ==
  [name |-> IF Truthy(user.name) THEN user.name ELSE user.login,
   totalPRs |-> FixedPullRequests, totalPRsMerged |-> 40,
   mergedPRsPercentage |-> 87, totalReviews |-> 15, totalCommits |-> 2100,
   totalIssues |-> 0, totalStars |-> FixedTotalStars,
   totalDiscussionsStarted |-> 0, totalDiscussionsAnswered |-> 0,
   contributedTo |-> FixedContributedTo,
   rank |-> [level |-> "C+", percentile |-> 45]]


(* ---------------------- languages: server side ------------------------- *)
LangNames == {"Python", "Go"}
EdgeSizes == {100, 200, 300}
LangColor(l) == IF l = "Python" THEN "#3572A5" ELSE "#00ADD8"
LangEdges ==
  {[size |-> s, name |-> l, color |-> LangColor(l)] : s \in EdgeSizes, l \in LangNames}

\* languages(first: 10, orderBy: {field: SIZE, direction: DESC}): the edges
\* of one repository name distinct languages, largest first.
EdgeLists ==
  {es \in SeqsOf(LangEdges, 0, Cardinality(LangNames)) :
     \A i, j \in 1..Len(es) : i < j => /\ es[i].name # es[j].name
                                       /\ es[i].size >= es[j].size}

LangRepos == [name : RepoNames, edges : EdgeLists]
\* The repositories of one user have distinct names.
RepoLists ==
  {rs \in SeqsOf(LangRepos, 0, MaxRepos) :
     \A i, j \in 1..Len(rs) : i < j => rs[i].name # rs[j].name}

LangsResponses ==
  {[errors |-> << >>, statusText |-> "OK", nodes |-> rs] : rs \in RepoLists}
  \cup {[errors |-> es, statusText |-> st, nodes |-> << >>] :
          es \in ErrorArrays, st \in StatusTexts}

(* -------------------- languages: fetchTopLanguages --------------------- *)
\* Array.prototype.sort is stable: an item goes behind every item whose key
\* is not smaller.  s is a sequence of [key, val], sorted by descending key.
RECURSIVE insertDesc(_, _)
insertDesc(s, x) ==
  IF s = << >> THEN <<x>>
  ELSE IF Head(s).key >= x.key THEN <<Head(s)>> \o insertDesc(Tail(s), x)
  ELSE <<x>> \o s

RECURSIVE sortDescFrom(_, _, _)
sortDescFrom(s, i, acc) ==
  IF i > Len(s) THEN acc ELSE sortDescFrom(s, i + 1, insertDesc(acc, s[i]))

sortDesc(s) == LET r == sortDescFrom(s, 1, << >>) IN [i \in 1..Len(r) |-> r[i].val]

\* repoNodes.sort((a, b) => b.size - a.size): a repository node has no
\* size, every comparison is NaN and counts as a tie.
sortReposBySize(nodes) ==
  sortDesc([i \in 1..Len(nodes) |-> [key |-> 0, val |-> nodes[i]]])

\* .filter((name) => !repoToHide[name.name])
RECURSIVE filterHidden(_, _)
filterHidden(nodes, repoToHide) ==
  IF nodes = << >> THEN << >>
  ELSE (IF Head(nodes).name \in repoToHide THEN << >> ELSE <<Head(nodes)>>)
       \o filterHidden(Tail(nodes), repoToHide)

\* .filter((node) => node.languages.edges.length > 0)
RECURSIVE filterWithEdges(_)
filterWithEdges(nodes) ==
  IF nodes = << >> THEN << >>
  ELSE (IF Len(Head(nodes).edges) > 0 THEN <<Head(nodes)>> ELSE << >>)
       \o filterWithEdges(Tail(nodes))

\* .reduce((acc, curr) => curr.languages.edges.concat(acc), [])
RECURSIVE flattenEdges(_, _)
flattenEdges(nodes, acc) ==
  IF nodes = << >> THEN acc
  ELSE flattenEdges(Tail(nodes), Head(nodes).edges \o acc)

\* The position of the key name in the object acc (a sequence of entries in
\* key order), 0 when it has no such key.
keyIndex(acc, name) ==
  IF \E i \in 1..Len(acc) : acc[i].name = name
    THEN CHOOSE i \in 1..Len(acc) : acc[i].name = name
    ELSE 0

\* The second reduce: one pass over the flattened edges with the single
\* counter repoCount shared by all languages.
RECURSIVE foldEdges(_, _, _)
foldEdges(edges, acc, repoCount) ==
  IF edges = << >> THEN acc
  ELSE LET prev == Head(edges)
           k == keyIndex(acc, prev.name)
           langSize == IF k # 0 THEN prev.size + acc[k].size ELSE prev.size
           count == IF k # 0 THEN repoCount + 1 ELSE 1
           entry == [name |-> prev.name, color |-> prev.color,
                     size |-> langSize, count |-> count]
       IN foldEdges(Tail(edges),
                    IF k # 0 THEN [acc EXCEPT ![k] = entry]
                    ELSE Append(acc, entry),
                    count)

RECURSIVE Pow(_, _)
Pow(b, e) == IF e = 0 THEN 1 ELSE b * Pow(b, e - 1)

\* size = Math.pow(size, size_weight) * Math.pow(count, count_weight)
applyWeights(langs, size_weight, count_weight) ==
  [i \in 1..Len(langs) |->
     [langs[i] EXCEPT !.size = Pow(langs[i].size, size_weight)
                              * Pow(langs[i].count, count_weight)]]

\* Lines 100-153: the local repoNodes after filtering, folding, weighting.
aggregate(nodes, repoToHide, size_weight, count_weight) ==
  applyWeights(
    foldEdges(flattenEdges(filterWithEdges(
                filterHidden(sortReposBySize(nodes), repoToHide)), << >>),
              << >>, 0),
    size_weight, count_weight)

\* Sizes of the literal tables are written in hundredths.
SizeScale == 100
Lang(n, c, s, k) == [name |-> n, color |-> c, size |-> s, count |-> k]

\* part_000, lines 155-204.
customLanguages ==
  << Lang("Python", "#3572A5", 4471, 15), Lang("TypeScript", "#2b7489", 1508, 8),
     Lang("JavaScript", "#f1e05a", 1364, 7), Lang("Rust", "#dea584", 928, 5),
     Lang("C++", "#f34b7d", 722, 4), Lang("Solidity", "#AA6746", 488, 3),
     Lang("Go", "#00ADD8", 321, 2), Lang("C", "#555555", 198, 2) >>

\* top-languages-fetcher.js, lines 80-153.
customLanguagesFile ==
  << Lang("Python", "#3572A5", 3850, 15), Lang("TypeScript", "#2b7489", 1420, 8),
     Lang("JavaScript", "#f1e05a", 1280, 7), Lang("Rust", "#dea584", 860, 5),
     Lang("C++", "#f34b7d", 680, 4), Lang("Solidity", "#AA6746", 420, 3),
     Lang("Shell", "#89e051", 380, 6), Lang("Go", "#00ADD8", 320, 2),
     Lang("C", "#555555", 290, 2), Lang("Dockerfile", "#384d54", 210, 4),
     Lang("PowerShell", "#012456", 160, 3), Lang("Makefile", "#427819", 130, 2) >>

\* Sort the entries by descending size into a new object.
sortBySize(langs) ==
  sortDesc([i \in 1..Len(langs) |-> [key |-> langs[i].size, val |-> langs[i]]])

\* "Convert bytes to relative percentages": size = size / totalBytes * 100,
\* in hundredths.
toPercentages(langs) ==
  LET totalBytes == SumSeq([i \in 1..Len(langs) |-> langs[i].size])
  IN [i \in 1..Len(langs) |->
        [langs[i] EXCEPT !.size = (langs[i].size * 100 * SizeScale) \div totalBytes]]

Weights == {<<1, 0>>, <<1, 1>>}
StaticTables == {customLanguagesFile, customLanguages}

NoOutcome == [kind |-> "none"]

VARIABLES
  pc,            \* "idle", "awaiting" (a request is in flight), "done"
  call,          \* the function called: "none", "stats", "langs", "static"
  env,           \* process.env.FETCH_MULTI_PAGE_STARS
  username,      \* argument
  exclude_repo,  \* argument (the set of the listed names)
  weights,       \* arguments <<size_weight, count_weight>>
  requests,      \* the requests issued by this call, in order
  responses,     \* the responses received by this call, in order
  stats,         \* statsFetcher: the accumulated result
  hasNextPage,   \* statsFetcher: loop variable
  endCursor,     \* statsFetcher: loop variable
  repoNodes,     \* fetchTopLanguages: the local repoNodes after the fold
  outcome        \* what the call returned or threw

vars == <<pc, call, env, username, exclude_repo, weights, requests,
          responses, stats, hasNextPage, endCursor, repoNodes, outcome>>

Init ==
  /\ pc = "idle"
  /\ call = "none"
  /\ env \in EnvValues
  /\ username = Undefined
  /\ exclude_repo = {}
  /\ weights = <<1, 0>>
  /\ requests = << >>
  /\ responses = << >>
  /\ stats = NoStats
  /\ hasNextPage = TRUE
  /\ endCursor = NullCursor
  /\ repoNodes = << >>
  /\ outcome = NoOutcome

\* fetchStats(username, _, exclude_repo, ...) up to the first await: the
\* username check, then statsFetcher's first loop iteration up to the
\* request.
FetchStats(name, exclude) ==
  /\ pc = "idle"
  /\ call' = "stats"
  /\ username' = name
  /\ exclude_repo' = exclude
  /\ IF MissingUsername(name)
       THEN /\ outcome' = MissingParamError
            /\ pc' = "done"
            /\ UNCHANGED requests
       ELSE /\ requests' = <<fetcher(name, NullCursor)>>
            /\ pc' = "awaiting"
            /\ UNCHANGED outcome
  /\ UNCHANGED <<env, weights, responses, stats, hasNextPage, endCursor,
                 repoNodes>>

\* The retried request resolves with res: the rest of the loop body, then
\* either the next request or the end of statsFetcher and of fetchStats.
StatsResponse(res) ==
  /\ pc = "awaiting"
  /\ call = "stats"
  /\ responses' = Append(responses, res)
  /\ IF hasErrors(res)
       THEN \* statsFetcher returns res; fetchStats classifies and throws
            /\ outcome' = Classify(res.errors, res.statusText,
                                   StatsGraphQLMessage)
            /\ pc' = "done"
            /\ UNCHANGED <<requests, stats, hasNextPage, endCursor>>
       ELSE IF dataIsNull(res)
       THEN /\ outcome' = TypeError
            /\ pc' = "done"
            /\ UNCHANGED <<requests, stats, hasNextPage, endCursor>>
       ELSE LET merged == mergePage(stats, res)
                more == continueWalk(env, res.nodes, res.hasNextPage)
            IN /\ hasNextPage' = more
               /\ endCursor' = res.endCursor
               /\ IF more
                    THEN /\ stats' = merged
                         /\ requests' = Append(requests,
                                               fetcher(username, res.endCursor))
                         /\ UNCHANGED <<pc, outcome>>
                    ELSE /\ stats' = overrideStats(merged)
                         /\ outcome' = [kind |-> "record",
                                        record |-> StatisticsRecord(stats'.scalars)]
                         /\ pc' = "done"
                         /\ UNCHANGED requests
  /\ UNCHANGED <<call, env, username, exclude_repo, weights, repoNodes>>

\* The retried request rejects: the rejection leaves through every await.
RequestFails ==
  /\ pc = "awaiting"
  /\ outcome' = TransportFailure
  /\ pc' = "done"
  /\ UNCHANGED <<call, env, username, exclude_repo, weights, requests,
                 responses, stats, hasNextPage, endCursor, repoNodes>>


\* fetchTopLanguages of part_000 (lines 68-214) up to its await.
FetchTopLanguages(name, exclude, w) ==
  /\ pc = "idle"
  /\ call' = "langs"
  /\ username' = name
  /\ exclude_repo' = exclude
  /\ weights' = w
  /\ IF MissingUsername(name)
       THEN /\ outcome' = MissingParamError
            /\ pc' = "done"
            /\ UNCHANGED requests
       ELSE /\ requests' = <<[query |-> "LANGS", login |-> name,
                              after |-> NullCursor]>>
            /\ pc' = "awaiting"
            /\ UNCHANGED outcome
  /\ UNCHANGED <<env, responses, stats, hasNextPage, endCursor, repoNodes>>

\* The language request resolves with res: lines 80-213 of part_000.
LangsResponse(res) ==
  /\ pc = "awaiting"
  /\ call = "langs"
  /\ responses' = Append(responses, res)
  /\ pc' = "done"
  /\ IF hasErrors(res)
       THEN /\ outcome' = Classify(res.errors, res.statusText,
                                   LangsGraphQLMessage)
            /\ UNCHANGED repoNodes
       ELSE IF dataIsNull(res)
       THEN /\ outcome' = TypeError
            /\ UNCHANGED repoNodes
       ELSE /\ repoNodes' = aggregate(res.nodes, exclude_repo,
                                      weights[1], weights[2])
            /\ outcome' = [kind |-> "langs", langs |-> sortBySize(customLanguages)]
  /\ UNCHANGED <<call, env, username, exclude_repo, weights, requests,
                 stats, hasNextPage, endCursor>>

\* fetchTopLanguages of top-languages-fetcher.js (lines 68-179) and of
\* part_000 (lines 286-373): no request, a literal table.
FetchTopLanguagesStatic(name, exclude, w, table) ==
  /\ pc = "idle"
  /\ call' = "static"
  /\ username' = name
  /\ exclude_repo' = exclude
  /\ weights' = w
  /\ pc' = "done"
  /\ outcome' = IF MissingUsername(name) THEN MissingParamError
                ELSE [kind |-> "langs",
                      langs |-> sortBySize(toPercentages(table))]
  /\ UNCHANGED <<env, requests, responses, stats, hasNextPage, endCursor,
                 repoNodes>>

\* What the server may answer to the request in flight.
StatsAnswers ==
  IF pc = "awaiting" /\ call = "stats"
    THEN StatsDataResponses(requests[Len(requests)], Len(requests))
         \cup ErrorResponses
    ELSE {}

LangsAnswers ==
  IF pc = "awaiting" /\ call = "langs" THEN LangsResponses ELSE {}

Next ==
  \/ \E name \in Usernames, exclude \in ExcludeLists : FetchStats(name, exclude)
  \/ \E res \in StatsAnswers : StatsResponse(res)
  \/ \E name \in Usernames, exclude \in ExcludeLists, w \in Weights :
       FetchTopLanguages(name, exclude, w)
  \/ \E res \in LangsAnswers : LangsResponse(res)
  \/ \E name \in Usernames, exclude \in ExcludeLists, w \in Weights,
        table \in StaticTables : FetchTopLanguagesStatic(name, exclude, w, table)
  \/ RequestFails

Spec == Init /\ [][Next]_vars
(* ============================== claims ================================= *)
AllStarred(nodes) == \A i \in 1..Len(nodes) : nodes[i].stars > 0
CarriesErrors(res) == Len(res.errors) > 0
TypedErrors == {"UserNotFound", "UpstreamMessage", "GraphQLUnspecified"}

\* C1: in a fetchStats call with a username, when FETCH_MULTI_PAGE_STARS is
\* not "true" the walk issues exactly one page request, whatever the page
\* reports as hasNextPage.
C1_OnePageWithoutFlag ==
  (call = "stats" /\ env # "true" /\ username \notin {Undefined, ""})
     => /\ Len(requests) = 1
        /\ (pc = "done" => Len(responses) <= 1)

C1_Witness ==
  /\ pc = "done" /\ call = "stats" /\ env = "false"
  /\ Len(responses) = 1 /\ ~CarriesErrors(responses[1])
  /\ responses[1].hasNextPage /\ AllStarred(responses[1].nodes)
  /\ Len(responses[1].nodes) > 0
  /\ Len(requests) = 1 /\ outcome.kind = "record"

\* C2: a request for page k+1 exists only if the answer to page k had no
\* error payload, the flag is "true", the answer reported hasNextPage and
\* all its repositories have more than 0 stars; a page with a zero-star
\* repository is the last page requested.
C2_ContinueOnlyIfAllStarred ==
  call = "stats" =>
    /\ \A k \in 1..(Len(requests) - 1) :
         /\ k <= Len(responses)
         /\ ~CarriesErrors(responses[k])
         /\ env = "true"
         /\ responses[k].hasNextPage
         /\ AllStarred(responses[k].nodes)
    /\ \A k \in 1..Len(responses) :
         ~AllStarred(responses[k].nodes) => Len(requests) = k

C2_Witness ==
  /\ pc = "done" /\ call = "stats" /\ env = "true"
  /\ Len(responses) = 1 /\ responses[1].hasNextPage
  /\ Len(responses[1].nodes) = 2
  /\ responses[1].nodes[1].stars > 0 /\ responses[1].nodes[2].stars = 0
  /\ Len(requests) = 1 /\ outcome.kind = "record"

\* C3: once an answer of a walk carries an error payload, no further page
\* is requested and fetchStats throws one of the typed errors; it returns
\* no record.
C3_ErrorEndsWalkWithTypedError ==
  call = "stats" =>
    \A k \in 1..Len(responses) :
      CarriesErrors(responses[k]) =>
        /\ Len(requests) = k /\ Len(responses) = k
        /\ pc = "done"
        /\ outcome.kind = "error"
        /\ outcome.error \in TypedErrors

C3_Witness ==
  /\ call = "stats" /\ pc = "done"
  /\ Len(responses) = 2 /\ CarriesErrors(responses[2])
  /\ Len(responses[1].nodes) > 0
  /\ outcome.kind = "error" /\ outcome.error = "GraphQLUnspecified"

\* C4: a call of fetchStats or fetchTopLanguages with an empty or absent
\* username throws MissingParameter and issues no request.
C4_MissingUsername ==
  (call # "none" /\ username \in {Undefined, ""})
     => /\ pc = "done"
        /\ outcome.kind = "error" /\ outcome.error = "MissingParameter"
        /\ requests = << >>

C4_Witness ==
  /\ call = "langs" /\ username = "" /\ exclude_repo # {}
  /\ weights = <<1, 1>>
  /\ pc = "done" /\ outcome.kind = "error"
  /\ outcome.error = "MissingParameter" /\ requests = << >>

\* C5: the throw for a non-empty error array is decided by its first error
\* alone: UserNotFound for type "NOT_FOUND" (with the upstream message, or
\* the default one when there is none), else UpstreamMessage when the first
\* error has a message, else GraphQLUnspecified.
C5_FirstErrorDecides ==
  \A k \in 1..Len(responses) :
    CarriesErrors(responses[k]) =>
      LET e == responses[k].errors[1] IN
        /\ outcome.kind = "error"
        /\ IF e.type = "NOT_FOUND"
             THEN /\ outcome.error = "UserNotFound"
                  /\ outcome.message = (IF Len(e.message) > 0 THEN e.message
                                        ELSE DefaultUserMessage)
           ELSE IF Len(e.message) > 0
             THEN outcome.error = "UpstreamMessage"
           ELSE outcome.error = "GraphQLUnspecified"

C5_Witness ==
  /\ pc = "done" /\ Len(responses) = 1
  /\ Len(responses[1].errors) = 2
  /\ responses[1].errors[1].type = "FORBIDDEN"
  /\ Len(responses[1].errors[1].message) > 0
  /\ responses[1].errors[2].type = "NOT_FOUND"
  /\ responses[1].errors[2].message = << >>
  /\ outcome.kind = "error" /\ outcome.error = "UpstreamMessage"
\* The repositories that remain after the exclusion, and those of them that
\* have a language edge.
VisibleRepos(nodes, hidden) == {i \in 1..Len(nodes) : nodes[i].name \notin hidden}
ExaminedRepos(nodes, hidden) ==
  {i \in VisibleRepos(nodes, hidden) : Len(nodes[i].edges) > 0}
EdgesOf(nodes, i, l) == {j \in 1..Len(nodes[i].edges) : nodes[i].edges[j].name = l}

RECURSIVE SumOver(_, _)
SumOver(S, f) ==
  IF S = {} THEN 0 ELSE LET x == CHOOSE y \in S : TRUE IN f[x] + SumOver(S \ {x}, f)

\* The bytes of language l in the visible repositories.
BytesOf(nodes, hidden, l) ==
  SumOver(VisibleRepos(nodes, hidden),
          [i \in 1..Len(nodes) |->
             SumOver(EdgesOf(nodes, i, l),
                     [j \in 1..Len(nodes[i].edges) |-> nodes[i].edges[j].size])])
ReposWith(nodes, hidden, l) ==
  {i \in VisibleRepos(nodes, hidden) : EdgesOf(nodes, i, l) # {}}

LangsReturned ==
  pc = "done" /\ call = "langs" /\ outcome.kind = "langs"

\* C6: with the default weights, the mapping returned by fetchTopLanguages
\* holds exactly the languages of the non-excluded repositories, each with
\* the sum of its edge sizes as size and the number of non-excluded
\* repositories containing it as count.
C6_ReturnedMappingIsAggregate ==
  (LangsReturned /\ weights = <<1, 0>>) =>
    LET nodes == responses[1].nodes
        langs == outcome.langs
    IN /\ {langs[i].name : i \in 1..Len(langs)}
            = {l \in LangNames : ReposWith(nodes, exclude_repo, l) # {}}
       /\ \A i \in 1..Len(langs) :
            /\ langs[i].size = SizeScale * BytesOf(nodes, exclude_repo, langs[i].name)
            /\ langs[i].count = Cardinality(ReposWith(nodes, exclude_repo, langs[i].name))

\* C7: in an aggregation run no language's count exceeds the number of
\* repositories examined (not excluded, with at least one language edge).
C7_CountAtMostRepos ==
  LangsReturned =>
    \A i \in 1..Len(repoNodes) :
      repoNodes[i].count
        <= Cardinality(ExaminedRepos(responses[1].nodes, exclude_repo))

\* size and count of every language after the flatten-and-fold step.
FoldValues(nodes) ==
  LET folded == foldEdges(flattenEdges(filterWithEdges(nodes), << >>), << >>, 0)
  IN {[name |-> folded[i].name, size |-> folded[i].size,
       count |-> folded[i].count] : i \in 1..Len(folded)}

Permuted(nodes) ==
  {[i \in 1..Len(nodes) |-> nodes[p[i]]] :
     p \in {q \in [1..Len(nodes) -> 1..Len(nodes)] :
              \A a, b \in 1..Len(nodes) : a # b => q[a] # q[b]}}

\* C8: the flatten-and-fold step gives every language the same size and
\* count for every order of the repository list.
C8_FoldCommutes ==
  LangsReturned =>
    \A other \in Permuted(responses[1].nodes) :
      FoldValues(filterHidden(other, exclude_repo))
        = FoldValues(filterHidden(responses[1].nodes, exclude_repo))

RECURSIVE AllNodes(_)
AllNodes(rs) == IF rs = << >> THEN << >> ELSE Head(rs).nodes \o AllNodes(Tail(rs))

StatsReturned ==
  pc = "done" /\ call = "stats" /\ outcome.kind = "record"

\* C9: totalStars of the returned record is the sum of the star counts of
\* the gathered repository nodes whose names are not excluded.
C9_TotalStarsIsSum ==
  StatsReturned =>
    LET nodes == AllNodes(responses)
    IN outcome.record.totalStars
         = SumOver({i \in 1..Len(nodes) : nodes[i].name \notin exclude_repo},
                   [i \in 1..Len(nodes) |-> nodes[i].stars])

\* C10: a walk that ends without an error returns the scalar payload of the
\* first page as the server sent it, with the repository nodes of all pages
\* in page order, each with the star count the server sent.
C10_WalkResultIsServerData ==
  StatsReturned =>
    /\ stats.scalars = responses[1].scalars[1]
    /\ stats.nodes = AllNodes(responses)

\* C11: in a walk the full stats query with a null cursor is issued exactly
\* once, as the first request; every later request is the repository-only
\* query with the end cursor of the answer just before it, and no cursor is
\* requested twice in the walk.
C11_CursorsNeverRevisited ==
  call = "stats" =>
    /\ \A k \in 1..Len(requests) :
         (requests[k].query = "STATS" /\ requests[k].after = NullCursor)
           <=> k = 1
    /\ \A k \in 2..Len(requests) :
         /\ requests[k].query = "REPOS"
         /\ requests[k].after = responses[k - 1].endCursor
    /\ \A j, k \in 1..Len(requests) :
         j < k => requests[j].after # requests[k].after
====
